---- MODULE Spec2Model ----
(***************************************************************************)
(* A model of codes/svg_charts.py: the per-category pipeline of main()     *)
(* (fetch archive index, fetch monthly pages, filter and truncate, resolve *)
(* ratings, lay out and write the dotted chart).                           *)
(*                                                                         *)
(* Python values are modelled as tagged records so that a missing key, a   *)
(* JSON null and a value of the wrong type stay distinguishable:           *)
(*   [t |-> "missing"]            the key is absent from the dict          *)
(*   [t |-> "none"]               the value is not a dict / not convertible*)
(*   [t |-> "int", v |-> n]       an integer                               *)
(*   [t |-> "str", s |-> chars]   a string, as a sequence of characters    *)
(*   [t |-> "dict", ...]          a JSON object with the fields read       *)
(***************************************************************************)
EXTENDS Integers, Sequences, FiniteSets, TLC

VARIABLES
    index,      \* world: the archive list the API answers with (any order)
    pages,      \* world: archive url -> the month's game list (any order)
    pc,         \* position of main(): "main", "get_archives", "fetch", "ratings", "render", "exit", "crashed"
    ci,         \* position of the for loop of main() in TIME_CLASSES (1-based)
    archives,   \* collect_games_for_timeclass: archives (sorted)
    ai,         \* collect_games_for_timeclass: position of the for loop over archives
    collected,  \* collect_games_for_timeclass: collected
    games,      \* main: games (what collect_games_for_timeclass returned)
    ratings,    \* main: ratings
    files,      \* the output directory: time_class -> "none" | "placeholder" | "chart"
    chart,      \* the geometry handed to matplotlib by the last render call
    fetched,    \* log of the archive pages requested for the current category
    failed,     \* the pages of the current category whose fetch failed
    idxOutcome  \* outcome of the archive-index fetch of the current category

vars == <<index, pages, pc, ci, archives, ai, collected, games, ratings,
          files, chart, fetched, failed, idxOutcome>>

-----------------------------------------------------------------------------
(* Bounds of the model *)

\* number of monthly archives the index may list
MaxArchives == 2
\* the window NGAMES of the script, scaled down from 100
NGAMES == 3
\* length of the lists ratings_from_games and the layout are applied to on
\* their own (never more than NGAMES, which is all main hands them)
MaxSeries == 2

(* Program constants *)
DOT_STEP_RATING == 8
MAX_Y_TICKS == 6

TIME_CLASSES == <<"blitz", "rapid", "bullet">>
RULES == "chess"
USERNAME == <<"W", "a", "w", "a", "_", "w", "u", "w", "a">>

-----------------------------------------------------------------------------
(* Python helpers *)

Missing == [t |-> "missing"]
NoneVal == [t |-> "none"]
IntVal(n) == [t |-> "int", v |-> n]
StrVal(s) == [t |-> "str", s |-> s]

RECURSIVE Concat(_)
Concat(ss) == IF ss = <<>> THEN <<>> ELSE Head(ss) \o Concat(Tail(ss))

Min2(a, b) == IF a < b THEN a ELSE b
Max2(a, b) == IF a > b THEN a ELSE b
SeqMax(s) == CHOOSE m \in {s[i] : i \in 1..Len(s)} : \A i \in 1..Len(s) : s[i] <= m
SeqMin(s) == CHOOSE m \in {s[i] : i \in 1..Len(s)} : \A i \in 1..Len(s) : m <= s[i]

\* math.ceil(a / b) and math.floor(a / b) for b > 0
CeilDiv(a, b) == -((-a) \div b)
FloorDiv(a, b) == a \div b

\* seq[-n:] for n >= 1
LastN(s, n) == IF Len(s) > n THEN SubSeq(s, Len(s) - n + 1, Len(s)) ELSE s

\* comparison of two tuples of integers, as Python compares tuples
RECURSIVE TupleLess(_, _)
TupleLess(a, b) ==
    IF a = <<>> THEN b # <<>>
    ELSE IF b = <<>> THEN FALSE
    ELSE IF Head(a) < Head(b) THEN TRUE
    ELSE IF Head(a) > Head(b) THEN FALSE
    ELSE TupleLess(Tail(a), Tail(b))

\* sorted(): a stable sort of [key, val] pairs by key
InsertPair(sq, p) ==
    LET later == {i \in 1..Len(sq) : TupleLess(p.key, sq[i].key)}
        at == IF later = {} THEN Len(sq) + 1
              ELSE CHOOSE i \in later : \A j \in later : i <= j
    IN SubSeq(sq, 1, at - 1) \o <<p>> \o SubSeq(sq, at, Len(sq))

RECURSIVE SortPairs(_)
SortPairs(ps) ==
    IF ps = <<>> THEN <<>>
    ELSE InsertPair(SortPairs(SubSeq(ps, 1, Len(ps) - 1)), ps[Len(ps)])

Vals(ps) == [i \in 1..Len(ps) |-> ps[i].val]

\* str.lower() on the ASCII letters
UpperCase == <<"A","B","C","D","E","F","G","H","I","J","K","L","M",
               "N","O","P","Q","R","S","T","U","V","W","X","Y","Z">>
LowerCase == <<"a","b","c","d","e","f","g","h","i","j","k","l","m",
               "n","o","p","q","r","s","t","u","v","w","x","y","z">>
LowerChar(c) ==
    IF \E i \in 1..Len(UpperCase) : UpperCase[i] = c
    THEN LowerCase[CHOOSE i \in 1..Len(UpperCase) : UpperCase[i] = c]
    ELSE c
Lower(s) == [i \in 1..Len(s) |-> LowerChar(s[i])]

\* int(): an integer is itself, a string of decimal digits is parsed,
\* anything else raises
Digits == <<"0","1","2","3","4","5","6","7","8","9">>
IsDigit(c) == \E i \in 1..Len(Digits) : Digits[i] = c
DigitVal(c) == (CHOOSE i \in 1..Len(Digits) : Digits[i] = c) - 1
RECURSIVE ParseDigits(_)
ParseDigits(s) ==
    IF s = <<>> THEN 0
    ELSE ParseDigits(SubSeq(s, 1, Len(s) - 1)) * 10 + DigitVal(s[Len(s)])
Raised == [ok |-> FALSE, v |-> 0]
Ok(n) == [ok |-> TRUE, v |-> n]
PyInt(x) ==
    IF x.t = "int" THEN Ok(x.v)
    ELSE IF x.t = "str" /\ x.s # <<>> /\ \A i \in 1..Len(x.s) : IsDigit(x.s[i])
         THEN Ok(ParseDigits(x.s))
    ELSE Raised

-----------------------------------------------------------------------------
(* get_archives_sorted *)

\* An archive URL ".../games/YYYY/MM" is the pair of its last two path
\* fragments; archive_key parses them with int(), so the key is the tuple
\* (year, month) of integers.  (The two fallback keys of archive_key apply
\* only to a URL without that suffix, which the archive index never lists.)
archive_key(url) == <<url.y, url.mo>>

\* sorted(archives, key=archive_key)
sorted_archives(archs) ==
    Vals(SortPairs([i \in 1..Len(archs) |->
                        [key |-> archive_key(archs[i]), val |-> archs[i]]]))

-----------------------------------------------------------------------------
(* collect_games_for_timeclass *)

\* g.get("end_time", g.get("time", 0)): the records carry no "time" field
end_time_key(g) == IF g.end_time.t = "int" THEN <<g.end_time.v>> ELSE <<0>>

\* a bug to compare against: the page appended in the order listed
month_data_unsorted(month_data) == month_data
\* sorted(month_data, key=lambda g: g.get("end_time", ...)), a stable sort
month_data_sorted(month_data) ==
    Vals(SortPairs([i \in 1..Len(month_data) |->
                        [key |-> end_time_key(month_data[i]), val |-> month_data[i]]]))

\* g.get("time_class") == time_class and g.get("rules") == RULES
Matches(g, time_class) == g.time_class = time_class /\ g.rules = RULES

filtered(month_data, time_class) ==
    SelectSeq(month_data_sorted(month_data), LAMBDA g : Matches(g, time_class))

\* the tail of the function: collected[-ngames:] when there are too many
truncate(coll, ngames) == IF Len(coll) > ngames THEN LastN(coll, ngames) ELSE coll

\* a bug to compare against: stop only once there are more than enough
enough_strict(coll, ngames) == Len(coll) > ngames
\* if len(collected) >= ngames: break
enough(coll, ngames) == Len(coll) >= ngames

\* The for loop over archives when every fetch answers 200 with `body`:
\* extend, stop once there are enough, go on otherwise.
RECURSIVE collect_loop(_, _, _, _, _)
collect_loop(archs, body, time_class, ngames, coll) ==
    IF archs = <<>> THEN coll
    ELSE LET ext == coll \o filtered(body[Head(archs)], time_class)
         IN IF enough(ext, ngames) THEN ext
            ELSE collect_loop(Tail(archs), body, time_class, ngames, ext)

\* collect_games_for_timeclass over the already sorted archives, no fetch failing
collect_all_ok(archs, body, time_class, ngames) ==
    IF archs = <<>> THEN <<>>
    ELSE truncate(collect_loop(archs, body, time_class, ngames, <<>>), ngames)

-----------------------------------------------------------------------------
(* ratings_from_games *)

\* g.get(side, {}).get(field, default) ; Raised when the side is not a dict
SideGet(side, field, default) ==
    IF side.t = "missing" THEN [ok |-> TRUE, v |-> default]
    ELSE IF side.t # "dict" THEN [ok |-> FALSE, v |-> default]
    ELSE IF side[field].t = "missing" THEN [ok |-> TRUE, v |-> default]
    ELSE [ok |-> TRUE, v |-> side[field]]

\* a bug to compare against: the comparison without .lower()
NameMatchesExact(white, username) ==
    white.t = "str" /\ white.s = username

\* str(white).lower() == username.lower()
NameMatches(white, username) ==
    white.t = "str" /\ Lower(white.s) = Lower(username)

\* one iteration of the loop body: the value appended for g
rating_entry(g, username) ==
    IF g.t # "dict" THEN 0
    ELSE LET white == SideGet(g.white, "username", StrVal(<<>>))
         IN IF ~white.ok THEN 0
            ELSE LET side == IF NameMatches(white.v, username) THEN g.white ELSE g.black
                     r == SideGet(side, "rating", IntVal(0))
                 IN IF r.ok /\ PyInt(r.v).ok THEN PyInt(r.v).v ELSE 0

ratings_from_games(gs, username) == [i \in 1..Len(gs) |-> rating_entry(gs[i], username)]

-----------------------------------------------------------------------------
(* nice_ymax and the layout part of render_timeclass_svg *)

nice_ymax(yvals) ==
    IF yvals = <<>> THEN 100
    ELSE LET step == DOT_STEP_RATING
             raw == CeilDiv(SeqMax(yvals) + step, step) * step
         IN raw + step * 2

y_min == 0

\* a bug to compare against: the row count rounded up
dots_in_col_ceil(r) == Max2(0, CeilDiv(r - y_min, DOT_STEP_RATING))
\* int(max(0, math.floor((r - y_min) / step)))
dots_in_col(r) == Max2(0, FloorDiv(r - y_min, DOT_STEP_RATING))

dots_per_col(rs) == [i \in 1..Len(rs) |-> dots_in_col(rs[i])]

\* ys = (np.arange(1, num + 1) - 0.5) * step, an integer since step is even;
\* xs_col = np.full_like(ys, xi) with xi the 0-based index of enumerate
column(xi, num, rs) ==
    [k \in 1..num |-> <<xi, k * DOT_STEP_RATING - DOT_STEP_RATING \div 2>>]

\* X, Y = np.concatenate(all_x), np.concatenate(all_y): the dots as (x, y)
scatter(rs) ==
    Concat([i \in 1..Len(rs) |-> column(i - 1, dots_per_col(rs)[i], rs)])

\* a bug to compare against: the heuristic without the cap
num_ticks_uncapped(y_max) == Max2(2, 1 + Max2(1, CeilDiv(y_max, DOT_STEP_RATING * 4)))
\* num_ticks = max(2, min(MAX_Y_TICKS, 1 + max(1, ceil(y_max / (step * 4)))))
num_ticks(y_max) ==
    Max2(2, Min2(MAX_Y_TICKS, 1 + Max2(1, CeilDiv(y_max, DOT_STEP_RATING * 4))))

\* np.linspace(y_min, y_max, num_ticks): tick k is y_min + k*(y_max-y_min)/(num_ticks-1),
\* kept exact as the fraction num/den
yticks(rs) ==
    LET ymx == nice_ymax(rs)
        nt == num_ticks(ymx)
    IN [k \in 1..nt |-> [num |-> y_min * (nt - 1) + (k - 1) * (ymx - y_min), den |-> nt - 1]]

\* what render_timeclass_svg draws: the placeholder card, or the chart
NoChart == [kind |-> "none", dots |-> <<>>, yticks |-> <<>>]
layout(rs) ==
    IF rs = <<>> THEN [kind |-> "placeholder", dots |-> <<>>, yticks |-> <<>>]
    ELSE [kind |-> "chart", dots |-> scatter(rs), yticks |-> yticks(rs)]

-----------------------------------------------------------------------------
(* The world: what the chess.com API answers *)

\* the archive URLs, oldest first: .../2023/9, .../2023/10, .../2024/1, ...
ArchiveUrls == <<[y |-> 2023, mo |-> 9], [y |-> 2023, mo |-> 10],
                 [y |-> 2024, mo |-> 1], [y |-> 2024, mo |-> 2]>>

\* a game of the month `url` ends inside that month
EndTime(url, slot) == IntVal((url.y * 12 + url.mo) * 10 + slot)

Opponent == <<"o", "p", "p">>
Side(name, r) == [t |-> "dict", username |-> StrVal(name), rating |-> IntVal(r)]

\* a game the player played as `color`, rated r after it
Game(url, slot, tc, rules, color, r) ==
    [t |-> "dict",
     end_time |-> IF slot = 0 THEN Missing ELSE EndTime(url, slot),
     time_class |-> tc, rules |-> rules,
     white |-> IF color = "white" THEN Side(USERNAME, r) ELSE Side(Opponent, r + 7),
     black |-> IF color = "black" THEN Side(USERNAME, r) ELSE Side(Opponent, r + 7)]

\* The monthly pages the model draws from, as (slot, time_class, rules,
\* color, rating); slot 0 is a record without end_time.  The API lists a
\* month in no particular order.
PageShapes ==
    { <<>>,
      << <<1, "blitz", "chess", "white", 1200>> >>,
      << <<2, "blitz", "chess", "black", 1215>>, <<1, "blitz", "chess", "white", 1200>> >>,
      << <<1, "rapid", "chess", "white", 1400>>, <<2, "blitz", "chess", "black", 1190>> >>,
      << <<2, "bullet", "chess", "black", 900>>, <<1, "blitz", "chess960", "white", 1100>> >>,
      << <<3, "blitz", "chess", "white", 1230>>, <<1, "blitz", "chess", "black", 1190>>,
         <<2, "blitz", "chess", "white", 1215>> >>,
      << <<2, "blitz", "chess", "white", 1215>>, <<0, "blitz", "chess", "black", 1200>> >> }

PageBody(url, shape) ==
    [i \in 1..Len(shape) |->
        Game(url, shape[i][1], shape[i][2], shape[i][3], shape[i][4], shape[i][5])]

Range(s) == {s[i] : i \in 1..Len(s)}
Perms(S) == {s \in [1..Cardinality(S) -> S] : \A i, j \in 1..Cardinality(S) : i # j => s[i] # s[j]}

\* the answers of the archive index: the first n URLs, listed in any order
Indexes == UNION {Perms({ArchiveUrls[i] : i \in 1..n}) : n \in 0..MaxArchives}

-----------------------------------------------------------------------------
(* main *)

time_class == TIME_CLASSES[ci]

WorldUnchanged == UNCHANGED <<index, pages>>

Init ==
    /\ index \in Indexes
    /\ \E sh \in [Range(index) -> PageShapes] :
           pages = [u \in Range(index) |-> PageBody(u, sh[u])]
    /\ pc = "main"
    /\ ci = 1
    /\ archives = <<>>
    /\ ai = 1
    /\ collected = <<>>
    /\ games = <<>>
    /\ ratings = <<>>
    /\ files = [c \in Range(TIME_CLASSES) |-> "none"]
    /\ chart = NoChart
    /\ fetched = <<>>
    /\ failed = {}
    /\ idxOutcome = "none"

\* for time_class in TIME_CLASSES.keys(): the call of collect_games_for_timeclass
MainNext ==
    /\ pc = "main"
    /\ ci <= Len(TIME_CLASSES)
    /\ pc' = "get_archives"
    /\ archives' = <<>>
    /\ ai' = 1
    /\ collected' = <<>>
    /\ games' = <<>>
    /\ ratings' = <<>>
    /\ chart' = NoChart
    /\ fetched' = <<>>
    /\ failed' = {}
    /\ idxOutcome' = "none"
    /\ UNCHANGED <<ci, files>>
    /\ WorldUnchanged

\* the for loop of main is exhausted: main returns
MainExit ==
    /\ pc = "main"
    /\ ci > Len(TIME_CLASSES)
    /\ pc' = "exit"
    /\ UNCHANGED <<ci, archives, ai, collected, games, ratings, files, chart,
                   fetched, failed, idxOutcome>>
    /\ WorldUnchanged

\* requests.get / resp.json() of the archive index raises (timeout, connection
\* error, undecodable body): nothing between the call and the top of main
\* catches it
GetArchivesRaises ==
    /\ pc = "get_archives"
    /\ idxOutcome' = "exception"
    /\ pc' = "crashed"
    /\ UNCHANGED <<ci, archives, ai, collected, games, ratings, files, chart,
                   fetched, failed>>
    /\ WorldUnchanged

\* resp.status_code != 200: get_archives_sorted returns [], and
\* collect_games_for_timeclass returns [] at once
GetArchivesStatus ==
    /\ pc = "get_archives"
    /\ idxOutcome' = "status"
    /\ archives' = <<>>
    /\ games' = <<>>
    /\ pc' = "ratings"
    /\ UNCHANGED <<ci, ai, collected, ratings, files, chart, fetched, failed>>
    /\ WorldUnchanged

\* the index answers 200: the archives are sorted; with none, return [] at once
GetArchivesOk ==
    /\ pc = "get_archives"
    /\ idxOutcome' = "ok"
    /\ archives' = sorted_archives(index)
    /\ IF archives' = <<>>
       THEN games' = <<>> /\ pc' = "ratings"
       ELSE games' = games /\ pc' = "fetch"
    /\ UNCHANGED <<ci, ai, collected, ratings, files, chart, fetched, failed>>
    /\ WorldUnchanged

\* the end of one iteration of the for loop over archives: leave the loop
\* (break, or no archive left) and return collected, truncated; or go on
LoopStep(coll, stop) ==
    IF stop \/ ai = Len(archives)
    THEN /\ games' = truncate(coll, NGAMES)
         /\ pc' = "ratings"
         /\ ai' = ai
    ELSE /\ games' = games
         /\ pc' = "fetch"
         /\ ai' = ai + 1

\* a bug to compare against: the try around the whole loop, so that one
\* failing page ends the collection
FetchFailsEndsLoop ==
    /\ pc = "fetch"
    /\ fetched' = Append(fetched, archives[ai])
    /\ failed' = failed \cup {archives[ai]}
    /\ collected' = collected
    /\ LoopStep(collected, TRUE)
    /\ UNCHANGED <<ci, archives, ratings, files, chart, idxOutcome>>
    /\ WorldUnchanged

\* one page: the answer is not 200, or requests.get / r.json() / the handling
\* of the body raises: continue with the next archive
FetchFails ==
    /\ pc = "fetch"
    /\ fetched' = Append(fetched, archives[ai])
    /\ failed' = failed \cup {archives[ai]}
    /\ collected' = collected
    /\ LoopStep(collected, FALSE)
    /\ UNCHANGED <<ci, archives, ratings, files, chart, idxOutcome>>
    /\ WorldUnchanged

\* one page answers 200: sort, filter, extend, break when there are enough
FetchOk ==
    /\ pc = "fetch"
    /\ fetched' = Append(fetched, archives[ai])
    /\ collected' = collected \o filtered(pages[archives[ai]], time_class)
    /\ LoopStep(collected', enough(collected', NGAMES))
    /\ UNCHANGED <<ci, archives, ratings, files, chart, failed, idxOutcome>>
    /\ WorldUnchanged

\* ratings = ratings_from_games(games); capped to the last NGAMES
Ratings ==
    /\ pc = "ratings"
    /\ ratings' = LastN(ratings_from_games(games, USERNAME), NGAMES)
    /\ pc' = "render"
    /\ UNCHANGED <<ci, archives, ai, collected, games, files, chart,
                   fetched, failed, idxOutcome>>
    /\ WorldUnchanged

\* render_timeclass_svg writes the file
RenderOk ==
    /\ pc = "render"
    /\ chart' = layout(ratings)
    /\ files' = [files EXCEPT ![time_class] = chart'.kind]
    /\ ci' = ci + 1
    /\ pc' = "main"
    /\ UNCHANGED <<archives, ai, collected, games, ratings, fetched, failed, idxOutcome>>
    /\ WorldUnchanged

\* render_timeclass_svg raises (savefig cannot write): main prints the error
\* and goes on to the next category
RenderRaises ==
    /\ pc = "render"
    /\ ci' = ci + 1
    /\ pc' = "main"
    /\ UNCHANGED <<archives, ai, collected, games, ratings, files, chart,
                   fetched, failed, idxOutcome>>
    /\ WorldUnchanged

Next ==
    \/ MainNext
    \/ MainExit
    \/ GetArchivesRaises
    \/ GetArchivesStatus
    \/ GetArchivesOk
    \/ FetchFails
    \/ FetchOk
    \/ Ratings
    \/ RenderOk
    \/ RenderRaises

Spec == Init /\ [][Next]_vars

-----------------------------------------------------------------------------
(* ratings_from_games on its own: any list of at most MaxSeries game        *)
(* records, well-formed or not                                              *)

Shouted == <<"W", "A", "W", "A", "_", "W", "U", "W", "A">>
WhiteSamples ==
    { Missing, NoneVal,
      Side(USERNAME, 1500), Side(Shouted, 1510), Side(Opponent, 1480),
      [t |-> "dict", username |-> Missing, rating |-> IntVal(1480)],
      [t |-> "dict", username |-> StrVal(USERNAME), rating |-> StrVal(<<"a", "b", "c">>)],
      [t |-> "dict", username |-> StrVal(USERNAME), rating |-> StrVal(<<"1", "5", "2", "0">>)] }
BlackSamples ==
    { Missing, NoneVal,
      Side(Opponent, 1400), Side(USERNAME, 1450),
      [t |-> "dict", username |-> StrVal(USERNAME), rating |-> Missing],
      [t |-> "dict", username |-> StrVal(Opponent), rating |-> NoneVal] }
GameSamples ==
    { [t |-> "dict", end_time |-> IntVal(1), time_class |-> "blitz", rules |-> "chess",
       white |-> w, black |-> b] : w \in WhiteSamples, b \in BlackSamples }
    \cup {NoneVal}

SeqsUpTo(S, n) == UNION {[1..k -> S] : k \in 0..n}

InitRatings ==
    /\ index = <<>>
    /\ pages = <<>>
    /\ pc = "ratings"
    /\ ci = 1
    /\ archives = <<>>
    /\ ai = 1
    /\ collected = <<>>
    /\ games \in SeqsUpTo(GameSamples, Min2(MaxSeries, NGAMES))
    /\ ratings = <<>>
    /\ files = [c \in Range(TIME_CLASSES) |-> "none"]
    /\ chart = NoChart
    /\ fetched = <<>>
    /\ failed = {}
    /\ idxOutcome = "none"

NextRatings == Ratings

SpecRatings == InitRatings /\ [][NextRatings]_vars

-----------------------------------------------------------------------------
(* render_timeclass_svg on its own: any series of at most MaxSeries ratings *)

RatingSamples == {0, 5, 8, 12, 100, 150, 1190, 1200}

InitLayout ==
    /\ index = <<>>
    /\ pages = <<>>
    /\ pc = "render"
    /\ ci = 1
    /\ archives = <<>>
    /\ ai = 1
    /\ collected = <<>>
    /\ games = <<>>
    /\ ratings \in SeqsUpTo(RatingSamples, Min2(MaxSeries, NGAMES))
    /\ files = [c \in Range(TIME_CLASSES) |-> "none"]
    /\ chart = NoChart
    /\ fetched = <<>>
    /\ failed = {}
    /\ idxOutcome = "none"

NextLayout ==
    \/ RenderOk
    \/ RenderRaises

SpecLayout == InitLayout /\ [][NextLayout]_vars

-----------------------------------------------------------------------------
(* The claims *)

\* the archives of the index in true chronological order, and the position
\* of a month on the calendar
Calendar == SelectSeq(ArchiveUrls, LAMBDA u : u \in Range(index))
MonthNo(u) == CHOOSE i \in 1..Len(ArchiveUrls) : ArchiveUrls[i] = u

\* every matching game of every page, oldest first
AllMatching(tc) == Concat([i \in 1..Len(Calendar) |-> filtered(pages[Calendar[i]], tc)])

Returned == pc = "ratings" /\ idxOutcome = "ok"

\* C1: with every fetch succeeding, collect_games_for_timeclass returns
\* exactly the chronologically last min(limit, m) entries of the filtered,
\* oldest-first input, m counting the matching games of ALL pages.
C1_ReturnsLastOfAllMatching ==
    (Returned /\ failed = {}) => games = LastN(AllMatching(time_class), NGAMES)

\* a record ratings_from_games can resolve: both sides present, named and
\* rated by something int() converts
SideWellFormed(side) ==
    /\ side.t = "dict"
    /\ side.username.t = "str"
    /\ PyInt(side.rating).ok
WellFormed(g) == g.t = "dict" /\ SideWellFormed(g.white) /\ SideWellFormed(g.black)

\* the rating of the side the player occupied
PlayerRating(g) ==
    IF Lower(g.white.username.s) = Lower(USERNAME)
    THEN PyInt(g.white.rating).v
    ELSE PyInt(g.black.rating).v

\* C2: a malformed record is skipped: the series holds one entry per
\* well-formed record, in order, none for a malformed one, and every value
\* is a positive integer.
C2_MalformedSkipped ==
    pc = "render" =>
        LET wf == SelectSeq(games, WellFormed)
        IN /\ Len(ratings) = Len(wf)
           /\ \A i \in 1..Len(ratings) : ratings[i] = PlayerRating(wf[i]) /\ ratings[i] > 0

\* C3: a failed archive-index fetch (non-success status or exception) yields
\* an empty series and no exception leaves collect_games_for_timeclass or
\* main.
C3_IndexFailureYieldsEmpty ==
    idxOutcome \in {"status", "exception"} =>
        /\ pc # "crashed"
        /\ pc \in {"ratings", "render"} => games = <<>>

\* C4: a failed page fetch excludes only that page: what is returned is what
\* extraction over the archives without the failed pages returns.
C4_FailedPageOnlyExcluded ==
    Returned =>
        games = collect_all_ok(SelectSeq(archives, LAMBDA u : u \notin failed),
                               pages, time_class, NGAMES)

C4_Witness ==
    /\ Returned
    /\ \E i, j \in 1..Len(fetched) :
          /\ i < j
          /\ fetched[i] \in failed
          /\ fetched[j] \notin failed
          /\ filtered(pages[fetched[j]], time_class) # <<>>
    /\ \E u \in failed : filtered(pages[u], time_class) # <<>>

\* C5: every run of main ends with one file written per category, the
\* placeholder when the category's series is empty.
C5_EveryCategoryHasFile ==
    pc \in {"exit", "crashed"} => \A c \in Range(TIME_CLASSES) : files[c] # "none"

C7_RatingOfPlayersSide ==
    pc = "render" =>
        \A i \in 1..Len(games) :
            WellFormed(games[i]) => i <= Len(ratings) /\ ratings[i] = PlayerRating(games[i])

C7_Witness ==
    /\ pc = "render"
    /\ Len(games) >= 2
    /\ WellFormed(games[1]) /\ WellFormed(games[2])
    /\ games[1].white.username.s = Shouted
    /\ games[2].black.username.s = USERNAME /\ games[2].white.username.s = Opponent
    /\ ratings[1] # ratings[2]

\* the ticks as drawn, and the floor the claims speak of
floatBase == SeqMin(ratings)
TickLess(a, b) == a.num * b.den < b.num * a.den

ColumnAt(x) ==
    LET col == SelectSeq(chart.dots, LAMBDA d : d[1] = x)
    IN [k \in 1..Len(col) |-> col[k][2]]

C9_FetchUntilEnough ==
    /\ [](\A i, j \in 1..Len(archives) : i < j => MonthNo(archives[i]) < MonthNo(archives[j]))
    /\ [](pc = "fetch" => /\ ai <= Len(archives)
                          /\ Len(collected) < NGAMES
                          /\ fetched = SubSeq(archives, 1, ai - 1))
    /\ [](Returned => Len(collected) >= NGAMES \/ fetched = archives)
    /\ [][fetched' # fetched =>
            \/ fetched' = <<>>
            \/ /\ Len(collected) < NGAMES
               /\ Len(fetched) < Len(archives)
               /\ fetched' = Append(fetched, archives[Len(fetched) + 1])]_vars

C9_Witness ==
    /\ Returned
    /\ Len(collected) >= NGAMES
    /\ Len(fetched) < Len(archives)

====
